---------------------------- MODULE Spec2Model ----------------------------
(***************************************************************************)
(* Model of src/platform_impl/macos/observer.rs: the EventLoopWaker (one   *)
(* recurring CFRunLoopTimer whose next fire date encodes the requested     *)
(* wake), and the two control-flow run loop observers with their panic     *)
(* guard.                                                                  *)
(*                                                                         *)
(* Time.  An Instant is a number of nanoseconds.  A CFAbsoluteTime (f64    *)
(* seconds) is represented in fixed point, as a number of 1e-9 seconds;    *)
(* f64 rounding is not modelled.  f64::MAX and f64::MIN are kept apart     *)
(* from every absolute time by their own record kind.  The two clocks      *)
(* advance together, CFEpochOffset apart.                                  *)
(*                                                                         *)
(* Run loop.  The native run loop is modelled by the contract the code     *)
(* relies on: an observer is called once for each activity of its flags,   *)
(* observers of a lower priority value first; the order among observers of *)
(* equal priority is left open.  The loop notifies before-waiting, sleeps, *)
(* notifies after-waiting, and notifies exit once it was asked to stop.    *)
(*                                                                         *)
(* event_loop.rs.  stop_app_on_panic, PanicInfo and the owner of the loop  *)
(* are not part of observer.rs; they are modelled from the design          *)
(* document: the guard runs its closure only while the PanicInfo is alive, *)
(* stores the payload of a panic and asks the loop to stop, and the owner  *)
(* takes the payload and resumes the panic once the loop has returned.     *)
(* What the PanicInfo does with a second payload before the first is taken *)
(* is not described; the model raises no panic while a stop is pending.    *)
(***************************************************************************)
EXTENDS Integers, Sequences, FiniteSets

(* ------------------------------ bounds -------------------------------- *)

\* Granularity of the modelled clocks, in nanoseconds.
Step == 400000000

\* The clocks run from Step to MaxInstant * Step.
MaxInstant == 4

\* Native reprogramming calls followed before the model stops issuing requests.
MaxCalls == 3

\* CFAbsoluteTimeGetCurrent() - Instant::now(), in nanoseconds.
CFEpochOffset == 100000000

\* Width of a CFIndex in the model, in bits (64 in the program).
CFIndexBits == 8

\* Observers that other subsystems register on the main run loop.
MaxOthers == 2

\* Panics followed before the model stops raising them.
MaxPanics == 1

(* --------------------------- program constants ------------------------ *)

NANOS_PER_SEC == 1000000000

F64_MAX == [kind |-> "MAX", at |-> 0]

F64_MIN == [kind |-> "MIN", at |-> 0]

\* An f64 that is the absolute time `at` (in 1e-9 s).
AbsoluteTime(at) == [kind |-> "abs", at |-> at]

\* Option<T>
None == << >>

Some(x) == << x >>

Instants == { k * Step : k \in 0 .. MaxInstant }

OptInstants == { None } \cup { Some(t) : t \in Instants }

CFIndexMin == -(2 ^ (CFIndexBits - 1))

CFIndexMax == 2 ^ (CFIndexBits - 1) - 1

\* CFRunLoopActivity
kCFRunLoopEntry == "kCFRunLoopEntry"

kCFRunLoopBeforeTimers == "kCFRunLoopBeforeTimers"

kCFRunLoopBeforeSources == "kCFRunLoopBeforeSources"

kCFRunLoopBeforeWaiting == "kCFRunLoopBeforeWaiting"

kCFRunLoopAfterWaiting == "kCFRunLoopAfterWaiting"

kCFRunLoopExit == "kCFRunLoopExit"

Activities ==
    { kCFRunLoopEntry, kCFRunLoopBeforeTimers, kCFRunLoopBeforeSources,
      kCFRunLoopBeforeWaiting, kCFRunLoopAfterWaiting, kCFRunLoopExit }

\* Panic payloads the application's wakeup/cleared may raise.
AppPayloads == { "app panic 1", "app panic 2" }

\* The payload of unreachable!().
Unreachable == "internal error: entered unreachable code"

VARIABLES
    now,        \* Instant::now(), monotonic
    waker,      \* the EventLoopWaker and the native timer it owns
    last_call,  \* the EventLoopWaker method the latest step called, if any
    call_log,   \* the latest EventLoopWaker call, and the one before it
                \* when the same request was made twice back to back
    panic_info, \* the Rc<PanicInfo> of the event loop: alive?, captured payload
    weak_count, \* the live Weak<PanicInfo> handles, the registered one included
    observers,  \* the observers of the main run loop, in registration order
    run_loop,   \* the main run loop: phase, activity being notified, stop flag
    delivered,  \* the observers called so far for the activity being notified
    callout,    \* the observer callback the latest step ran, if any
    raised,     \* payloads of the panics raised inside the callbacks' closures
    reraised    \* payloads the loop owner re-raised

vars ==
    << now, waker, last_call, call_log, panic_info, weak_count, observers,
       run_loop, delivered, callout, raised, reraised >>

(* ------------------------------ clocks -------------------------------- *)

\* CFAbsoluteTimeGetCurrent(), read at the same moment as Instant::now().
CFAbsoluteTimeGetCurrent == now + CFEpochOffset

\* Duration::as_secs and Duration::subsec_nanos
as_secs(duration) == duration \div NANOS_PER_SEC

subsec_nanos(duration) == duration % NANOS_PER_SEC

(* --------------------------- EventLoopWaker ---------------------------- *)

\* CFRunLoopTimerSetNextFireDate(timer, fire_date): one native call.
CFRunLoopTimerSetNextFireDate(timer, fire_date) ==
    [timer EXCEPT !.fire_date = fire_date, !.set_calls = @ + 1]

\* EventLoopWaker::default(): the timer is created with fire date f64::MAX.
WakerDefault ==
    [ timer          |-> [fire_date |-> F64_MAX, set_calls |-> 0],
      start_instant  |-> now,
      next_fire_date |-> None ]

\* stop() without the `is_some()` test: reprograms on every call.
stop_unconditional(self) ==
    [self EXCEPT
        !.next_fire_date = None,
        !.timer = CFRunLoopTimerSetNextFireDate(@, F64_MAX)]

stop(self) ==
    IF self.next_fire_date # None
    THEN [self EXCEPT
            !.next_fire_date = None,
            !.timer = CFRunLoopTimerSetNextFireDate(@, F64_MAX)]
    ELSE self

\* start without the guard on the stored date: reprograms on every call.
start_unconditional(self) ==
    [self EXCEPT
        !.next_fire_date = Some(self.start_instant),
        !.timer = CFRunLoopTimerSetNextFireDate(@, F64_MIN)]

start(self) ==
    IF self.next_fire_date # Some(self.start_instant)
    THEN [self EXCEPT
            !.next_fire_date = Some(self.start_instant),
            !.timer = CFRunLoopTimerSetNextFireDate(@, F64_MIN)]
    ELSE self

\* fsecs with the sub-second part of the duration dropped.
fsecs_whole_seconds(duration) == as_secs(duration) * NANOS_PER_SEC

\* duration.subsec_nanos() as f64 / 1_000_000_000.0 + duration.as_secs() as f64
fsecs(duration) == subsec_nanos(duration) + as_secs(duration) * NANOS_PER_SEC

\* The future arm without the comparison with the stored date: reprograms
\* on every call.
start_at_future_always(self, instant) ==
    [self EXCEPT
        !.next_fire_date = Some(instant),
        !.timer = CFRunLoopTimerSetNextFireDate(
                      @, AbsoluteTime(CFAbsoluteTimeGetCurrent
                                        + fsecs(instant - now)))]

\* The future arm that never postpones: a timer set to wake at once or at
\* an earlier instant is left as it is.
start_at_future_keeps_earlier(self, instant) ==
    IF \/ self.next_fire_date = None
       \/ ( /\ self.next_fire_date # Some(self.start_instant)
            /\ self.next_fire_date # Some(instant)
            /\ self.timer.fire_date.at
                  > CFAbsoluteTimeGetCurrent + fsecs(instant - now) )
    THEN [self EXCEPT
            !.next_fire_date = Some(instant),
            !.timer = CFRunLoopTimerSetNextFireDate(
                          @, AbsoluteTime(CFAbsoluteTimeGetCurrent
                                            + fsecs(instant - now)))]
    ELSE self

\* The `Some(instant)` arm of start_at that is taken when now < instant.
start_at_future(self, instant) ==
    IF self.next_fire_date # Some(instant)
    THEN LET current  == CFAbsoluteTimeGetCurrent
             duration == instant - now
         IN  [self EXCEPT
                !.next_fire_date = Some(instant),
                !.timer = CFRunLoopTimerSetNextFireDate(
                              @, AbsoluteTime(current + fsecs(duration)))]
    ELSE self

\* start_at with the guard `now > instant`: an instant equal to now is
\* scheduled instead of collapsing to start().
start_at_strict(self, instant) ==
    IF instant # None /\ now > instant[1]
    THEN start(self)
    ELSE IF instant # None
    THEN start_at_future(self, instant[1])
    ELSE stop(self)

\* start_at whose `None` arm only forgets the date, leaving the timer alone.
start_at_none_forgets(self, instant) ==
    IF instant # None /\ now >= instant[1]
    THEN start(self)
    ELSE IF instant # None
    THEN start_at_future(self, instant[1])
    ELSE [self EXCEPT !.next_fire_date = None]

start_at(self, instant) ==
    IF instant # None /\ now >= instant[1]
    THEN start(self)
    ELSE IF instant # None
    THEN start_at_future(self, instant[1])
    ELSE stop(self)

(* ------------------------- observer callbacks -------------------------- *)

(***************************************************************************)
(* A closure is modelled by what running it does: the application          *)
(* notifications it makes and the payload of the panic it ends with, if    *)
(* any.  `app` is what the application's notification does: None when it   *)
(* returns, Some(payload) when it panics.                                  *)
(***************************************************************************)
Returns(notified) == [notified |-> notified, panic |-> None]

Panics(notified, payload) == [notified |-> notified, panic |-> Some(payload)]

\* ApplicationDelegate::wakeup / ApplicationDelegate::cleared
Notify(notification, app) == [notified |-> << notification >>, panic |-> app]

\* The closure of control_flow_begin_handler with `_ => ()` as its last arm.
begin_closure_lenient(activity, app) ==
    IF activity = kCFRunLoopAfterWaiting
    THEN Notify("wakeup", app)
    ELSE Returns(<< >>)

\* The closure of control_flow_begin_handler without its call of wakeup.
begin_closure_silent(activity, app) ==
    IF activity = kCFRunLoopAfterWaiting
    THEN Returns(<< >>)
    ELSE Panics(<< >>, Unreachable)

\* The closure control_flow_begin_handler passes to control_flow_handler.
begin_closure(activity, app) ==
    IF activity = kCFRunLoopAfterWaiting
    THEN Notify("wakeup", app)
    ELSE Panics(<< >>, Unreachable)

\* The closure of control_flow_end_handler with the arm
\* `kCFRunLoopExit => unimplemented!()`.
end_closure_exit_unimplemented(activity, app) ==
    IF activity = kCFRunLoopBeforeWaiting
    THEN Notify("cleared", app)
    ELSE IF activity = kCFRunLoopExit
    THEN Panics(<< >>, "not implemented")
    ELSE Panics(<< >>, Unreachable)

\* The closure control_flow_end_handler passes to control_flow_handler.
end_closure(activity, app) ==
    IF activity = kCFRunLoopBeforeWaiting
    THEN Notify("cleared", app)
    ELSE IF activity = kCFRunLoopExit
    THEN Returns(<< >>)
    ELSE Panics(<< >>, Unreachable)

(***************************************************************************)
(* What one callback does: the notifications made, the panic raised inside *)
(* the closure, the payload stored in the PanicInfo, whether the loop was  *)
(* asked to stop, whether a panic unwound into the native caller, the      *)
(* notifications that were made outside stop_app_on_panic, and the change  *)
(* in the number of live Weak<PanicInfo> handles.                          *)
(***************************************************************************)
NoEffect ==
    [ notified |-> << >>, panic |-> None, captured |-> None,
      stop |-> FALSE, unwound |-> FALSE, direct |-> << >>, weak |-> 0 ]

\* event_loop::stop_app_on_panic(mtm, panic_info, f): nothing when the
\* PanicInfo is gone; otherwise f runs, and a panic of f is stored in the
\* PanicInfo and the application is asked to stop.  It is given a Weak and a
\* closure that owns another, and both are dropped by the time it returns,
\* whether f ran, panicked or was skipped.
stop_app_on_panic(alive, f) ==
    IF ~alive
    THEN [NoEffect EXCEPT !.weak = -2]
    ELSE IF f.panic = None
    THEN [NoEffect EXCEPT !.notified = f.notified, !.weak = -2]
    ELSE [ notified |-> f.notified, panic |-> f.panic, captured |-> f.panic,
           stop |-> TRUE, unwound |-> FALSE, direct |-> << >>, weak |-> -2 ]

\* control_flow_handler calling f itself instead of handing it to
\* stop_app_on_panic.
control_flow_handler_unguarded(alive, f) ==
    [ notified |-> f.notified, panic |-> f.panic, captured |-> None,
      stop |-> FALSE, unwound |-> f.panic # None,
      direct |-> f.notified, weak |-> 0 ]

\* control_flow_handler without `mem::forget(info_from_raw)`: the Weak
\* rebuilt from the context pointer is dropped at the end of the scope.
control_flow_handler_drops_raw(alive, f) ==
    [stop_app_on_panic(alive, f) EXCEPT !.weak = @ + 2 - 1]

\* control_flow_handler asking the application to stop whenever its closure
\* ran, whether or not it panicked.
control_flow_handler_always_stops(alive, f) ==
    [stop_app_on_panic(alive, f) EXCEPT !.weak = @ + 2, !.stop = alive]

\* control_flow_handler(panic_info, f): `alive` is whether the Weak rebuilt
\* from the context pointer still upgrades.  Weak::from_raw takes over the
\* registered handle and mem::forget gives it back; the two Weak::clone
\* make the handles that stop_app_on_panic and the closure consume.
control_flow_handler(alive, f) ==
    [stop_app_on_panic(alive, f) EXCEPT !.weak = @ + 2]

\* control_flow_begin_handler running its closure itself, outside
\* control_flow_handler.
control_flow_begin_handler_direct(activity, alive, app) ==
    control_flow_handler_unguarded(alive, begin_closure(activity, app))

control_flow_begin_handler(activity, alive, app) ==
    control_flow_handler(alive, begin_closure(activity, app))

control_flow_end_handler(activity, alive, app) ==
    control_flow_handler(alive, end_closure(activity, app))

\* A timer callback that makes the wakeup notification itself.
wakeup_main_loop_notifies ==
    [NoEffect EXCEPT !.notified = << "wakeup" >>, !.direct = << "wakeup" >>]

\* extern "C" fn wakeup_main_loop(_timer, _info) {}: the callback of the
\* waker's timer has an empty body.
wakeup_main_loop == NoEffect

(* ------------------------------ run loop ------------------------------- *)

Observer(order, activities, handler) ==
    [order |-> order, activities |-> activities, handler |-> handler]

\* RunLoop::add_observer: CFRunLoopObserverCreate + CFRunLoopAddObserver.
add_observer(list, flags, priority, handler) ==
    Append(list, Observer(priority, flags, handler))

\* setup_control_flow_observers with the begin observer at priority 0.
setup_control_flow_observers_begin_default(list) ==
    add_observer(
        add_observer(list, { kCFRunLoopAfterWaiting }, 0,
                     "control_flow_begin_handler"),
        { kCFRunLoopExit, kCFRunLoopBeforeWaiting }, CFIndexMax,
        "control_flow_end_handler")

setup_control_flow_observers(list) ==
    add_observer(
        add_observer(list, { kCFRunLoopAfterWaiting }, CFIndexMin,
                     "control_flow_begin_handler"),
        { kCFRunLoopExit, kCFRunLoopBeforeWaiting }, CFIndexMax,
        "control_flow_end_handler")

IsSetUp ==
    \E i \in DOMAIN observers : observers[i].handler # "other"

Others == { i \in DOMAIN observers : observers[i].handler = "other" }

\* The observers the run loop calls for an activity.
Matching(activity) ==
    { i \in DOMAIN observers : activity \in observers[i].activities }

\* "The lower the value, the sooner this will run": the observers that may be
\* called next are the pending ones of the lowest priority value.
NextUp(pending) ==
    { i \in pending : \A j \in pending : observers[i].order <= observers[j].order }

(* ------------------------------ actions ------------------------------- *)

NoCall == [op |-> "none", instant |-> None]

NoCallout ==
    [ handler |-> "none", activity |-> "none", alive |-> FALSE,
      effect |-> NoEffect ]

\* The state of the waker: stopped, waking at once, or waking at an instant.
WakeState(self) ==
    IF self.next_fire_date = None THEN << "Stopped" >>
    ELSE IF self.next_fire_date = Some(self.start_instant) THEN << "WakeNow" >>
    ELSE << "WakeAt", self.next_fire_date[1] >>

\* call_log after the method `op` is called with `instant` and leaves the
\* waker `after`: this call with the state it found and the number of native
\* calls it made, preceded by the call before it when that was the same
\* request.
Logged(op, instant, after) ==
    (IF call_log # << >> /\ last_call = [op |-> op, instant |-> instant]
     THEN << call_log[Len(call_log)] >>
     ELSE << >>)
        \o << [ op    |-> op,
                was   |-> WakeState(waker),
                calls |-> after.timer.set_calls - waker.timer.set_calls ] >>

CanCall ==
    /\ waker.timer.set_calls < MaxCalls
    /\ run_loop.phase \in { "stopped", "awake" }

Stop ==
    /\ CanCall
    /\ waker' = stop(waker)
    /\ last_call' = [op |-> "stop", instant |-> None]
    /\ call_log' = Logged("stop", None, waker')
    /\ callout' = NoCallout
    /\ UNCHANGED << now, panic_info, weak_count, observers, run_loop,
                    delivered, raised, reraised >>

Start ==
    /\ CanCall
    /\ waker' = start(waker)
    /\ last_call' = [op |-> "start", instant |-> None]
    /\ call_log' = Logged("start", None, waker')
    /\ callout' = NoCallout
    /\ UNCHANGED << now, panic_info, weak_count, observers, run_loop,
                    delivered, raised, reraised >>

StartAt ==
    \E instant \in OptInstants :
        /\ CanCall
        /\ waker' = start_at(waker, instant)
        /\ last_call' = [op |-> "start_at", instant |-> instant]
        /\ call_log' = Logged("start_at", instant, waker')
        /\ callout' = NoCallout
        /\ UNCHANGED << now, panic_info, weak_count, observers, run_loop,
                        delivered, raised, reraised >>

\* Time passes on both clocks.
Tick ==
    /\ now < MaxInstant * Step
    /\ now' = now + Step
    /\ last_call' = NoCall
    /\ call_log' = << >>
    /\ callout' = NoCallout
    /\ UNCHANGED << waker, panic_info, weak_count, observers, run_loop,
                    delivered, raised, reraised >>

\* The event loop is constructed: setup_control_flow_observers(weak).
Setup ==
    /\ ~IsSetUp
    /\ panic_info.strong
    /\ run_loop.phase = "stopped"
    /\ observers' = setup_control_flow_observers(observers)
    /\ weak_count' = weak_count + 1
    /\ last_call' = NoCall
    /\ call_log' = << >>
    /\ callout' = NoCallout
    /\ UNCHANGED << now, waker, panic_info, run_loop, delivered, raised,
                    reraised >>

\* Another subsystem registers an observer of every activity on the main
\* run loop, in the common modes.
AddOtherObserver ==
    \E priority \in { CFIndexMin, 0, CFIndexMax } :
        /\ Cardinality(Others) < MaxOthers
        /\ run_loop.phase \in { "stopped", "awake" }
        /\ observers' = add_observer(observers, Activities, priority, "other")
        /\ last_call' = NoCall
        /\ call_log' = << >>
        /\ callout' = NoCallout
        /\ UNCHANGED << now, waker, panic_info, weak_count, run_loop,
                        delivered, raised, reraised >>

\* The loop is run: by its owner once set up and with no panic pending, or
\* by the host after the owner is gone.
RunLoopRun ==
    /\ run_loop.phase = "stopped"
    /\ IsSetUp
    /\ panic_info.strong => panic_info.inner = None
    /\ run_loop' = [run_loop EXCEPT !.phase = "awake"]
    /\ last_call' = NoCall
    /\ call_log' = << >>
    /\ callout' = NoCallout
    /\ UNCHANGED << now, waker, panic_info, weak_count, observers, delivered,
                    raised, reraised >>

\* The application asks the loop to stop.
RequestStop ==
    /\ run_loop.phase = "awake"
    /\ ~run_loop.stop
    /\ run_loop' = [run_loop EXCEPT !.stop = TRUE]
    /\ last_call' = NoCall
    /\ call_log' = << >>
    /\ callout' = NoCallout
    /\ UNCHANGED << now, waker, panic_info, weak_count, observers, delivered,
                    raised, reraised >>

\* The loop reaches its next activity: exit once asked to stop, otherwise
\* before-waiting when it has run its sources, after-waiting when it wakes.
BeginNotify ==
    /\ run_loop.phase \in { "awake", "waiting" }
    /\ LET activity ==
               IF run_loop.stop THEN kCFRunLoopExit
               ELSE IF run_loop.phase = "awake" THEN kCFRunLoopBeforeWaiting
               ELSE kCFRunLoopAfterWaiting
       IN  run_loop' = [run_loop EXCEPT
                           !.phase = "notify",
                           !.activity = activity,
                           !.pending = Matching(activity)]
    /\ delivered' = << >>
    /\ last_call' = NoCall
    /\ call_log' = << >>
    /\ callout' = NoCallout
    /\ UNCHANGED << now, waker, panic_info, weak_count, observers, raised,
                    reraised >>

\* The state after `handler` was called with `activity`, the application's
\* notification doing `app`.
Invoke(handler, activity, app, loop) ==
    LET alive  == panic_info.strong
        effect == IF handler = "control_flow_begin_handler"
                  THEN control_flow_begin_handler(activity, alive, app)
                  ELSE IF handler = "control_flow_end_handler"
                  THEN control_flow_end_handler(activity, alive, app)
                  ELSE IF handler = "wakeup_main_loop"
                  THEN wakeup_main_loop
                  ELSE NoEffect
    IN  /\ effect.panic # None => Len(raised) < MaxPanics
        /\ panic_info' = IF effect.captured # None
                         THEN [panic_info EXCEPT !.inner = effect.captured]
                         ELSE panic_info
        /\ weak_count' = weak_count + effect.weak
        /\ run_loop' = [loop EXCEPT !.stop = @ \/ effect.stop]
        /\ raised' = IF effect.panic # None
                     THEN Append(raised, effect.panic[1])
                     ELSE raised
        /\ callout' = [ handler |-> handler, activity |-> activity,
                        alive |-> alive, effect |-> effect ]
        /\ last_call' = NoCall
        /\ call_log' = << >>

\* The run loop calls the next observer of the activity it is notifying.
Callout ==
    /\ run_loop.phase = "notify"
    /\ \E i \in NextUp(run_loop.pending) :
       \E app \in { None } \cup { Some(p) : p \in AppPayloads } :
          /\ Invoke(observers[i].handler, run_loop.activity, app,
                    [run_loop EXCEPT !.pending = @ \ { i }])
          /\ delivered' = Append(delivered, i)
    /\ UNCHANGED << now, waker, observers, reraised >>

\* The native layer breaks its contract: a control-flow observer is called
\* with an activity it did not register for.
Misdeliver ==
    /\ run_loop.phase \in { "awake", "waiting" }
    /\ ~run_loop.stop
    /\ \E i \in DOMAIN observers :
       \E activity \in Activities \ observers[i].activities :
          Invoke(observers[i].handler, activity, None, run_loop)
    /\ UNCHANGED << now, waker, observers, delivered, reraised >>

\* The fire date programmed into the waker's timer has been reached.
TimerDue ==
    \/ waker.timer.fire_date = F64_MIN
    \/ /\ waker.timer.fire_date.kind = "abs"
       /\ waker.timer.fire_date.at <= CFAbsoluteTimeGetCurrent

\* The run loop, awake, fires the waker's timer, which is due, and calls its
\* callback.  The timer repeats, and the date the run loop gives it for its
\* next firing is native state that the waker never reads: waker.timer
\* keeps the date the waker programmed last.
TimerFire ==
    /\ run_loop.phase = "awake"
    /\ TimerDue
    /\ Invoke("wakeup_main_loop", "none", None, run_loop)
    /\ UNCHANGED << now, waker, observers, delivered, reraised >>

\* Every observer of the activity was called: the loop sleeps, handles its
\* sources, or returns to whoever ran it.
EndNotify ==
    /\ run_loop.phase = "notify"
    /\ run_loop.pending = { }
    /\ run_loop' =
         IF run_loop.activity = kCFRunLoopExit
         THEN [run_loop EXCEPT !.phase = "stopped", !.stop = FALSE]
         ELSE IF run_loop.activity = kCFRunLoopBeforeWaiting
         THEN [run_loop EXCEPT !.phase = "waiting"]
         ELSE [run_loop EXCEPT !.phase = "awake"]
    /\ last_call' = NoCall
    /\ call_log' = << >>
    /\ callout' = NoCallout
    /\ UNCHANGED << now, waker, panic_info, weak_count, observers, delivered,
                    raised, reraised >>

\* The loop returned to its owner with a payload captured: the owner takes
\* it out of the PanicInfo and resumes the panic.
Reraise ==
    /\ panic_info.strong
    /\ run_loop.phase = "stopped"
    /\ panic_info.inner # None
    /\ reraised' = Append(reraised, panic_info.inner[1])
    /\ panic_info' = [panic_info EXCEPT !.inner = None]
    /\ last_call' = NoCall
    /\ call_log' = << >>
    /\ callout' = NoCallout
    /\ UNCHANGED << now, waker, weak_count, observers, run_loop, delivered,
                    raised >>

\* The owner drops the event loop; the observers stay registered.
DropOwner ==
    /\ panic_info.strong
    /\ run_loop.phase = "stopped"
    /\ panic_info.inner = None
    /\ panic_info' = [panic_info EXCEPT !.strong = FALSE]
    /\ last_call' = NoCall
    /\ call_log' = << >>
    /\ callout' = NoCallout
    /\ UNCHANGED << now, waker, weak_count, observers, run_loop, delivered,
                    raised, reraised >>

Init ==
    /\ now = Step
    /\ waker = WakerDefault
    /\ last_call = NoCall
    /\ call_log = << >>
    /\ panic_info = [strong |-> TRUE, inner |-> None]
    /\ weak_count = 0
    /\ observers = << >>
    /\ run_loop = [ phase |-> "stopped", activity |-> "none", pending |-> { },
                    stop |-> FALSE ]
    /\ delivered = << >>
    /\ callout = NoCallout
    /\ raised = << >>
    /\ reraised = << >>

\* The event loop with its waker, on a run loop that has no other observers.
Next ==
    \/ Stop
    \/ Start
    \/ StartAt
    \/ Tick
    \/ Setup
    \/ RunLoopRun
    \/ RequestStop
    \/ BeginNotify
    \/ Callout
    \/ Misdeliver
    \/ TimerFire
    \/ EndNotify
    \/ Reraise
    \/ DropOwner

Spec == Init /\ [][Next]_vars

\* The event loop on a run loop that other subsystems observe too; the
\* waker, which no observer touches, is left as constructed.
NextObservers ==
    \/ AddOtherObserver
    \/ Setup
    \/ RunLoopRun
    \/ RequestStop
    \/ BeginNotify
    \/ Callout
    \/ Misdeliver
    \/ EndNotify
    \/ Reraise
    \/ DropOwner

SpecObservers == Init /\ [][NextObservers]_vars

\* The waker by itself: requests and the passing of time, with no run loop
\* activity in between.
NextWaker ==
    \/ Stop
    \/ Start
    \/ StartAt
    \/ Tick

SpecWaker == Init /\ [][NextWaker]_vars

\* The run loop goes on to its next observer and its next activity, and the
\* owner's run() goes on once the loop has returned to it.
FairSpec ==
    /\ Spec
    /\ WF_vars(BeginNotify \/ Callout \/ EndNotify)
    /\ WF_vars(Reraise)

(* ------------------------------ WakeState ------------------------------ *)

\* The CFAbsoluteTime at which Instant t falls.
NativeTimeOf(t) == AbsoluteTime(t + CFEpochOffset)

\* What a request leaves behind: the stored state and the programmed date.
ResultingState(self) == << WakeState(self), self.timer.fire_date >>

(* ------------------------------- claims -------------------------------- *)

\* C1: in every reachable state the fire date last programmed into the
\* native timer matches next_fire_date: None <=> f64::MAX,
\* Some(start_instant) <=> f64::MIN, and Some(t) for any other t <=> the
\* CFAbsoluteTime of t.
C1_FireDateMatchesWakeState ==
    /\ (waker.next_fire_date = None) <=> (waker.timer.fire_date = F64_MAX)
    /\ (waker.next_fire_date = Some(waker.start_instant))
          <=> (waker.timer.fire_date = F64_MIN)
    /\ \A t \in Instants \ { waker.start_instant } :
          (waker.next_fire_date = Some(t))
            <=> (waker.timer.fire_date = NativeTimeOf(t))

\* A wake scheduled a fractional number of seconds ahead, after time passed.
C1_Witness ==
    /\ WakeState(waker) = << "WakeAt", 3 * Step >>
    /\ waker.timer.fire_date = NativeTimeOf(3 * Step)
    /\ waker.timer.set_calls = 3
    /\ now = 2 * Step

\* C2: every step performs one native reprogramming call if it changes the
\* WakeState and none if it leaves the WakeState as it was.
C2_OneCallPerStateChange ==
    [][ waker'.timer.set_calls =
          waker.timer.set_calls
            + (IF WakeState(waker') # WakeState(waker) THEN 1 ELSE 0) ]_vars

\* stop() was just called on a timer that was reprogrammed exactly twice
\* (WakeNow or WakeAt, then Stopped), however many requests were made.
C2_Witness ==
    /\ last_call.op = "stop"
    /\ WakeState(waker) = << "Stopped" >>
    /\ waker.timer.set_calls = 2

\* C3: start_at(Some(t)) with t <= now leaves the stored state and the
\* programmed fire date that start() leaves from the same state.
C3_PastInstantIsStart ==
    [][ ( /\ last_call'.op = "start_at"
          /\ last_call'.instant # None
          /\ last_call'.instant[1] <= now )
        => ResultingState(waker') = ResultingState(start(waker)) ]_vars

\* start_at(Some(now)) was just called and reprogrammed the timer.
C3_Witness ==
    /\ last_call = [op |-> "start_at", instant |-> Some(now)]
    /\ now > waker.start_instant
    /\ ResultingState(waker) = << << "WakeNow" >>, F64_MIN >>
    /\ waker.timer.set_calls = 2

\* C4: start_at(None) leaves the state that stop() leaves from the same
\* state, native call count included.
C4_NoneIsStop ==
    [][ ( /\ last_call'.op = "start_at"
          /\ last_call'.instant = None )
        => waker' = stop(waker) ]_vars

\* start_at(None) was just called on a running timer and reprogrammed it.
C4_Witness ==
    /\ last_call = [op |-> "start_at", instant |-> None]
    /\ ResultingState(waker) = << << "Stopped" >>, F64_MAX >>
    /\ waker.timer.set_calls = 2

\* The handler of the k-th observer called for the activity being notified.
DeliveredHandler(k) == observers[delivered[k]].handler

DeliveredOrder(k) == observers[delivered[k]].order

ControlFlowHandlers ==
    { "control_flow_begin_handler", "control_flow_end_handler" }

\* The latest step called a control-flow observer with an activity it is
\* not registered for.
UnexpectedActivity ==
    \/ /\ callout.handler = "control_flow_begin_handler"
       /\ callout.activity # kCFRunLoopAfterWaiting
    \/ /\ callout.handler = "control_flow_end_handler"
       /\ callout.activity \notin { kCFRunLoopBeforeWaiting, kCFRunLoopExit }

C6_PanicIsCapturedAndReraisedOnce ==
    /\ [] ( ( /\ callout.effect.notified # << >>
               /\ callout.effect.panic # None )
             => /\ ~callout.effect.unwound
                /\ run_loop.stop
                /\ run_loop.phase # "stopped"
                /\ panic_info.inner = callout.effect.panic
                /\ raised = reraised \o callout.effect.panic )
    /\ [] ( /\ Len(reraised) <= Len(raised)
            /\ reraised = SubSeq(raised, 1, Len(reraised))
            /\ Len(raised) <= Len(reraised) + 1
            /\ (Len(raised) = Len(reraised) + 1)
                  <=> ( /\ panic_info.inner # None
                        /\ raised = reraised \o panic_info.inner ) )
    /\ [][ reraised' # reraised
             => /\ run_loop.phase = "stopped"
                /\ run_loop' = run_loop
                /\ reraised' = reraised \o panic_info.inner
                /\ reraised' = raised
                /\ panic_info'.inner = None ]_vars
    /\ (Len(raised) > Len(reraised)) ~> (reraised = raised)

\* wakeup() panicked, the loop stopped, and the owner re-raised the payload.
C6_Witness ==
    /\ raised = << "app panic 2" >>
    /\ reraised = << "app panic 2" >>
    /\ panic_info = [strong |-> TRUE, inner |-> None]
    /\ run_loop.phase = "stopped"

\* C7: a control-flow observer callback that runs after the PanicInfo's
\* owner is gone makes no application notification, stores no payload,
\* requests no stop and does not panic.
C7_StaleCallbackDoesNothing ==
    [][ ( /\ callout'.handler \in ControlFlowHandlers
          /\ ~callout'.alive )
        => /\ callout'.effect = NoEffect
           /\ panic_info' = panic_info
           /\ run_loop'.stop = run_loop.stop
           /\ raised' = raised
           /\ reraised' = reraised
           /\ waker' = waker ]_vars

\* The host ran the loop after the owner was dropped, and the begin
\* observer was notified of after-waiting.
C7_Witness ==
    /\ callout.handler = "control_flow_begin_handler"
    /\ callout.activity = kCFRunLoopAfterWaiting
    /\ ~callout.alive
    /\ run_loop.phase = "notify"

\* C8 (as claimed): an activity a control-flow observer is not registered
\* for always ends in the unreachable!() panic, also after the owner is
\* gone.
C8_UnexpectedActivityPanics ==
    UnexpectedActivity => callout.effect.panic = Some(Unreachable)

\* C8 (amended): while the owner is alive, an activity a control-flow
\* observer is not registered for ends in the unreachable!() panic, with
\* no application notification; the panic is captured and the loop asked
\* to stop.
C8_UnexpectedActivityPanicsWhileAlive ==
    (UnexpectedActivity /\ callout.alive)
        => /\ callout.effect.panic = Some(Unreachable)
           /\ callout.effect.notified = << >>
           /\ panic_info.inner = Some(Unreachable)
           /\ run_loop.stop

\* The end observer was called with after-waiting while the owner lived.
C8_Witness ==
    /\ callout.handler = "control_flow_end_handler"
    /\ callout.activity = kCFRunLoopAfterWaiting
    /\ callout.alive
    /\ raised = << Unreachable >>

\* C9: while the owner is alive, the begin observer notified of
\* after-waiting calls wakeup() exactly once and the end observer notified
\* of before-waiting calls cleared() exactly once, within the callback; no
\* observer is called twice for one activity; wakeup() is never called for
\* before-waiting or exit, nor cleared() for after-waiting.
C9_OneNotificationPerPhase ==
    /\ ( /\ callout.alive
         /\ callout.handler = "control_flow_begin_handler"
         /\ callout.activity = kCFRunLoopAfterWaiting )
       => callout.effect.notified = << "wakeup" >>
    /\ ( /\ callout.alive
         /\ callout.handler = "control_flow_end_handler"
         /\ callout.activity = kCFRunLoopBeforeWaiting )
       => callout.effect.notified = << "cleared" >>
    /\ \A i, j \in DOMAIN delivered : delivered[i] = delivered[j] => i = j
    /\ callout.activity \in { kCFRunLoopBeforeWaiting, kCFRunLoopExit }
       => \A k \in DOMAIN callout.effect.notified :
              callout.effect.notified[k] # "wakeup"
    /\ callout.activity = kCFRunLoopAfterWaiting
       => \A k \in DOMAIN callout.effect.notified :
              callout.effect.notified[k] # "cleared"

\* The loop woke and notified the begin observer, which called wakeup().
C9_Witness ==
    /\ callout.alive
    /\ callout.handler = "control_flow_begin_handler"
    /\ callout.activity = kCFRunLoopAfterWaiting
    /\ callout.effect.notified = << "wakeup" >>
    /\ delivered = << 1 >>

\* C10: the end observer called with the exit activity does nothing:
\* cleared() is not called, nothing panics or is captured, no stop is
\* requested, and the waker and the PanicInfo stay as they were.
C10_ExitIsNoOp ==
    [][ ( /\ callout'.handler = "control_flow_end_handler"
          /\ callout'.activity = kCFRunLoopExit )
        => /\ callout'.effect = NoEffect
           /\ panic_info' = panic_info
           /\ run_loop'.stop = run_loop.stop
           /\ raised' = raised
           /\ reraised' = reraised
           /\ waker' = waker ]_vars

\* The loop exits with a captured payload and a scheduled wake, and the end
\* observer is notified of the exit.
C10_Witness ==
    /\ callout.handler = "control_flow_end_handler"
    /\ callout.activity = kCFRunLoopExit
    /\ callout.alive
    /\ panic_info.inner # None
    /\ WakeState(waker)[1] = "WakeAt"

-----------------------------------------------------------------------------
\* Two calls of the same method made in a row.

\* The last two EventLoopWaker calls were both `op`, with nothing between
\* them.
CalledTwice(op) ==
    /\ Len(call_log) = 2
    /\ call_log[1].op = op
    /\ call_log[2].op = op

\* Native reprogramming calls made by the calls in call_log together.
CallsOverLog == call_log[1].calls + call_log[2].calls

\* Native reprogramming calls made by the latest call in call_log.
CallsOfLatest == call_log[Len(call_log)].calls

\* C11 as stated: stop() called twice in a row makes exactly one native
\* reprogramming call over the two calls, whatever state the timer was in.
C11_TwoStopsOneCall ==
    CalledTwice("stop") => CallsOverLog = 1

\* C11: stop() called twice in a row makes exactly one native reprogramming
\* call over the two calls if the timer was not Stopped before the first of
\* them, and none if it was already Stopped, as a newly constructed timer
\* is; the second call never reprograms, and the timer ends Stopped with the
\* fire date "never".
C11_TwoStopsOneCallUnlessStopped ==
    CalledTwice("stop") =>
        /\ CallsOverLog =
              (IF call_log[1].was = << "Stopped" >> THEN 0 ELSE 1)
        /\ CallsOfLatest = 0
        /\ ResultingState(waker) = << << "Stopped" >>, F64_MAX >>

\* stop() was called twice in a row on a timer with a scheduled wake: the
\* first call reprogrammed it, the second did not.
C11_Witness ==
    /\ CalledTwice("stop")
    /\ call_log[1].was[1] = "WakeAt"
    /\ CallsOverLog = 1
    /\ last_call.op = "stop"

\* C12 as stated: start() called twice in a row makes exactly one native
\* reprogramming call over the two calls, whatever state the timer was in,
\* and the state is WakeNow after each call.
C12_TwoStartsOneCall ==
    CalledTwice("start") =>
        /\ CallsOverLog = 1
        /\ call_log[2].was = << "WakeNow" >>
        /\ WakeState(waker) = << "WakeNow" >>

\* C12: start() called twice in a row makes exactly one native
\* reprogramming call over the two calls if the timer was not WakeNow before
\* the first of them, as a newly constructed timer is not, and none if it
\* was already WakeNow; the second call never reprograms, and the state is
\* WakeNow with the fire date "immediately" after each call.
C12_TwoStartsOneCallUnlessWakeNow ==
    CalledTwice("start") =>
        /\ CallsOverLog =
              (IF call_log[1].was = << "WakeNow" >> THEN 0 ELSE 1)
        /\ CallsOfLatest = 0
        /\ call_log[2].was = << "WakeNow" >>
        /\ ResultingState(waker) = << << "WakeNow" >>, F64_MIN >>

\* start() was called twice in a row on a newly constructed timer: one
\* native call was made in all.
C12_Witness ==
    /\ CalledTwice("start")
    /\ call_log[1].was = << "Stopped" >>
    /\ waker.timer.set_calls = 1
    /\ last_call.op = "start"

-----------------------------------------------------------------------------
\* Scheduling a wake in the future.

\* C13: start_at(Some(t)) with t > now on a timer whose stored instant is
\* not t makes exactly one native call, which programs the native clock's
\* current time plus (t - now), and stores Some(t); on a timer whose stored
\* instant is already t it makes no native call and changes nothing.
C13_FutureWakeReprogramsOnce ==
    [][ \A t \in Instants :
          ( /\ last_call' = [op |-> "start_at", instant |-> Some(t)]
            /\ t > now )
          => IF waker.next_fire_date # Some(t)
             THEN waker' =
                    [waker EXCEPT
                       !.next_fire_date = Some(t),
                       !.timer =
                          [fire_date |->
                             AbsoluteTime(CFAbsoluteTimeGetCurrent + (t - now)),
                           set_calls |-> @.set_calls + 1]]
             ELSE waker' = waker ]_vars

\* start_at was just called for an instant 1.2 s ahead on a timer set to
\* wake at once; the timer was reprogrammed to the native time of the
\* instant.
C13_Witness ==
    /\ now = Step
    /\ last_call = [op |-> "start_at", instant |-> Some(4 * Step)]
    /\ call_log[Len(call_log)].was = << "WakeNow" >>
    /\ waker.next_fire_date = Some(4 * Step)
    /\ waker.timer.fire_date = AbsoluteTime(CFEpochOffset + 4 * Step)
    /\ CallsOfLatest = 1

-----------------------------------------------------------------------------
\* The latest request supersedes the ones before it.

\* The EventLoopWaker method named by `call`, applied to `self`.
Call(self, call) ==
    CASE call.op = "stop"     -> stop(self)
      [] call.op = "start"    -> start(self)
      [] call.op = "start_at" -> start_at(self, call.instant)
      [] OTHER                -> self

\* The timer that a history of calls ending with the stored date `date`
\* leaves behind: the fire date is the one programmed for `date`.
History(date) ==
    [ timer          |->
        [ fire_date |->
            IF date = None THEN F64_MAX
            ELSE IF date = Some(waker.start_instant) THEN F64_MIN
            ELSE AbsoluteTime(date[1] + CFEpochOffset),
          set_calls |-> 0 ],
      start_instant  |-> waker.start_instant,
      next_fire_date |-> date ]

\* The state and fire date that `call`, made when the clock reads `clock`,
\* asks for by itself.
Demanded(call, clock) ==
    IF call.op = "stop" \/ (call.op = "start_at" /\ call.instant = None)
    THEN << << "Stopped" >>, F64_MAX >>
    ELSE IF call.op = "start" \/ call.instant[1] <= clock
    THEN << << "WakeNow" >>, F64_MIN >>
    ELSE << << "WakeAt", call.instant[1] >>, NativeTimeOf(call.instant[1]) >>

\* Fire date a comes before fire date b.
Earlier(a, b) ==
    \/ a.kind = "MIN" /\ b.kind # "MIN"
    \/ a.kind # "MAX" /\ b.kind = "MAX"
    \/ a.kind = "abs" /\ b.kind = "abs" /\ a.at < b.at

\* C14: after stop(), start() or start_at() the stored state and the
\* programmed fire date are the ones the call asks for by itself, given its
\* argument and the clock at the time of the call; the same call made on a
\* timer with any other history leaves the same state and fire date; and
\* start_at(Some(t)) with t in the future, made in WakeNow or in WakeAt(t')
\* with t' < t, leaves WakeAt(t) and a fire date later than the one before.
C14_LatestCallSupersedes ==
    [][ last_call'.op # "none" =>
          /\ ResultingState(waker') = Demanded(last_call', now)
          /\ \A date \in OptInstants :
                ResultingState(Call(History(date), last_call'))
                  = ResultingState(waker')
          /\ \A t \in Instants :
                ( /\ last_call' = [op |-> "start_at", instant |-> Some(t)]
                  /\ t > now
                  /\ \/ WakeState(waker) = << "WakeNow" >>
                     \/ /\ WakeState(waker)[1] = "WakeAt"
                        /\ WakeState(waker)[2] < t )
                => /\ WakeState(waker') = << "WakeAt", t >>
                   /\ Earlier(waker.timer.fire_date, waker'.timer.fire_date)
      ]_vars

\* start_at was just called for a future instant on a timer that had been
\* set to wake at an earlier instant, itself still in the future: the wake
\* moved to the later instant.
C14_Witness ==
    /\ last_call = [op |-> "start_at", instant |-> Some(3 * Step)]
    /\ now = Step
    /\ call_log[Len(call_log)].was = << "WakeAt", 2 * Step >>
    /\ ResultingState(waker)
         = << << "WakeAt", 3 * Step >>, NativeTimeOf(3 * Step) >>

-----------------------------------------------------------------------------
\* Notifications are made under the panic guard.

\* C15: whenever a native callback has made an application notification
\* (wakeup or cleared), it was one of the two control flow handlers and the
\* notification was made by the closure run inside stop_app_on_panic, so
\* that its panic cannot unwind into the run loop; no callback makes a
\* notification outside the guard.
C15_NotificationsAreGuarded ==
    callout.effect.notified # << >> =>
        /\ callout.handler \in ControlFlowHandlers
        /\ callout.effect.direct = << >>
        /\ ~callout.effect.unwound

\* The application's wakeup notification has just panicked inside the
\* guard: the payload was captured and nothing unwound into the run loop.
C15_Witness ==
    /\ callout.handler = "control_flow_begin_handler"
    /\ callout.effect.notified = << "wakeup" >>
    /\ callout.effect.panic \in { Some(p) : p \in AppPayloads }
    /\ callout.effect.direct = << >>
    /\ panic_info.inner = callout.effect.panic

-----------------------------------------------------------------------------
\* Weak handles across callbacks.

\* C16: every call of the begin or end handler, whether its closure
\* returned, panicked or was skipped, leaves the number of live
\* Weak<PanicInfo> handles as it found it; and from setup on the handle
\* held by the registration stays alive, so the context pointer never
\* dangles and no handle is released twice.
C16_WeakHandlesBalanced ==
    /\ [][ callout'.handler \in ControlFlowHandlers =>
              /\ callout'.effect.weak = 0
              /\ weak_count' = weak_count ]_vars
    /\ [](weak_count = IF IsSetUp THEN 1 ELSE 0)

\* A callback made after the owner is gone, and so skipped, on a loop where
\* an earlier callback panicked and its payload was re-raised: the
\* registered handle is still the only live one.
C16_Witness ==
    /\ callout.handler \in ControlFlowHandlers
    /\ ~callout.alive
    /\ reraised # << >>
    /\ weak_count = 1

-----------------------------------------------------------------------------
\* The guard is transparent when nothing panics.

\* C17: when the closure of a begin or end callback ran and returned
\* normally, the guard did nothing of its own: the PanicInfo is as it was
\* (an empty one stays empty), nothing was captured or raised, no stop was
\* requested, nothing unwound, and the waker is as it was.
C17_GuardIsTransparent ==
    [][ ( /\ callout'.handler \in ControlFlowHandlers
          /\ callout'.alive
          /\ callout'.effect.panic = None )
        => /\ panic_info' = panic_info
           /\ callout'.effect.captured = None
           /\ ~callout'.effect.stop
           /\ ~callout'.effect.unwound
           /\ run_loop'.stop = run_loop.stop
           /\ raised' = raised
           /\ reraised' = reraised
           /\ waker' = waker ]_vars

\* The application's cleared notification has just returned normally: the
\* PanicInfo is empty, no stop is pending and the scheduled wake is kept.
C17_Witness ==
    /\ callout.handler = "control_flow_end_handler"
    /\ callout.alive
    /\ callout.effect.notified = << "cleared" >>
    /\ callout.effect.panic = None
    /\ panic_info = [strong |-> TRUE, inner |-> None]
    /\ ~run_loop.stop
    /\ WakeState(waker)[1] = "WakeAt"

-----------------------------------------------------------------------------
\* The timer callback.

\* C18: a firing of the waker's timer does nothing but run the empty
\* callback: next_fire_date and the rest of the waker, the PanicInfo and its
\* handles stay as they were, neither wakeup nor cleared is called, nothing
\* is raised and the run loop is not asked to stop; the loop is awake.
\* Notifications come from the two phase observers only.
C18_TimerCallbackDoesNothing ==
    /\ [][ callout'.handler = "wakeup_main_loop" =>
              /\ callout'.effect = NoEffect
              /\ waker' = waker
              /\ panic_info' = panic_info
              /\ weak_count' = weak_count
              /\ raised' = raised
              /\ reraised' = reraised
              /\ observers' = observers
              /\ delivered' = delivered
              /\ run_loop' = run_loop
              /\ run_loop.phase = "awake" ]_vars
    /\ [](callout.effect.notified # << >>
            => callout.handler \in ControlFlowHandlers)

\* The timer fired for a wake scheduled at an instant that has come, after
\* the begin observer announced the wakeup of this cycle.
C18_Witness ==
    /\ callout.handler = "wakeup_main_loop"
    /\ WakeState(waker) = << "WakeAt", 2 * Step >>
    /\ now = 3 * Step
    /\ delivered # << >>
    /\ DeliveredHandler(1) = "control_flow_begin_handler"
    /\ run_loop.activity = kCFRunLoopAfterWaiting

-----------------------------------------------------------------------------
\* The start_instant sentinel.

\* C19: the stored date is Some(start_instant) only with the fire date
\* "immediately", which only start() programs; the clock never reads less
\* than start_instant, so every instant the future arm of start_at stores is
\* greater than start_instant and an absolute fire date is always stored
\* with such an instant; hence start() called on a timer with a scheduled
\* wake is never skipped: it reprograms the timer to fire immediately.
C19_SentinelNeverScheduled ==
    /\ [](now >= waker.start_instant)
    /\ [](waker.next_fire_date = Some(waker.start_instant)
            => waker.timer.fire_date = F64_MIN)
    /\ [](waker.timer.fire_date.kind = "abs"
            => waker.next_fire_date
                 \in { Some(t) : t \in { u \in Instants :
                                            u > waker.start_instant } })
    /\ [][ \A t \in Instants :
              ( /\ last_call' = [op |-> "start_at", instant |-> Some(t)]
                /\ t > now )
              => /\ t > waker.start_instant
                 /\ waker'.next_fire_date = Some(t)
                 /\ waker'.timer.fire_date.kind = "abs" ]_vars
    /\ [][ ( /\ last_call'.op = "start"
              /\ waker.timer.fire_date.kind = "abs" )
            => /\ waker'.timer.set_calls = waker.timer.set_calls + 1
               /\ ResultingState(waker') = << << "WakeNow" >>, F64_MIN >>
          ]_vars

\* start() was just called on a timer set to wake at the next instant
\* after start_instant, and reprogrammed it to fire immediately.
C19_Witness ==
    /\ last_call.op = "start"
    /\ call_log # << >>
    /\ call_log[Len(call_log)].was = << "WakeAt", waker.start_instant + Step >>
    /\ CallsOfLatest = 1
    /\ ResultingState(waker) = << << "WakeNow" >>, F64_MIN >>

=============================================================================
